---- MODULE Spec2Model ----
(* Model of src/utils/db.js: the IndexedDB adapter of the Webpage Clipper   *)
(* extension (initDB, addClippedPage, getAllClippedPages, deleteClippedPage, *)
(* clearAllClippedPages) together with the part of the IndexedDB engine the  *)
(* adapter drives: the open request with its upgrade callback, the ordered   *)
(* transactions on the clippedPages store, the key generator, and the        *)
(* success / error / abort signals.                                          *)
EXTENDS Integers, Sequences, FiniteSets, TLC

DB_VERSION == 2
STORE_NAME == "clippedPages"

\* Bounds of the exploration.
MaxCalls == 3
MaxKey == 2

VARIABLES db, version, schema, store, keyGen, calls, openq, pending, txq, phase, work, clock

vars == <<db, version, schema, store, keyGen, calls, openq, pending, txq, phase, work, clock>>

-----------------------------------------------------------------------------
(* JavaScript values that can sit in a property of pageData.  A number is    *)
(* n/d; undefined also stands for an absent property.                        *)
JSV(k, s, n, d) == [k |-> k, s |-> s, n |-> n, d |-> d]
Undef == JSV("undef", "", 0, 1)
Null == JSV("null", "", 0, 1)
NaN == JSV("nan", "", 0, 1)
Str(s) == JSV("str", s, 0, 1)
Num(n) == JSV("num", "", n, 1)
Frac(n, d) == JSV("num", "", n, d)
\* new Date().toISOString() at clock time t
toISOString(t) == JSV("str", "iso", t, 1)

\* JavaScript truthiness, as used by the || operator
Truthy(v) ==
  CASE v.k = "str" -> (v.s # "")
    [] v.k = "num" -> (v.n # 0)
    [] OTHER -> FALSE

\* a || b
OrElse(a, b) == IF Truthy(a) THEN a ELSE b

\* Number.isFinite(v): true only for values of type number that are finite
NumberIsFinite(v) == v.k = "num"

-----------------------------------------------------------------------------
(* pageData arguments.  present = FALSE is a call without an object.         *)
Page(pr, id, ti, u, c, ts, f, w, r) ==
  [present |-> pr, id |-> id, title |-> ti, url |-> u, content |-> c,
   timestamp |-> ts, favicon |-> f, wordCount |-> w, readingTime |-> r]

PAbsent == Page(FALSE, Undef, Undef, Undef, Undef, Undef, Undef, Undef, Undef)
PEmpty == Page(TRUE, Undef, Undef, Undef, Undef, Undef, Undef, Undef, Undef)
PFull == Page(TRUE, Undef, Str("A"), Str("http://x"), Str("hi"), Undef, Undef, Num(2), Num(1))
PBad == Page(TRUE, Undef, Undef, Undef, Undef, Undef, Undef, NaN, Str("x"))
POdd == Page(TRUE, Num(1), Num(5), Null, Str(""), Str("t0"), Str("f"), Num(-3), Frac(5, 2))

Pages == {PAbsent, PEmpty, PFull, PBad, POdd}

\* the object literal built by addClippedPage (it has no id property)
DataM(p, t) ==
  [title |-> OrElse(p.title, Str("Untitled")),
   url |-> OrElse(p.url, Str("")),
   content |-> OrElse(p.content, Str("")),
   timestamp |-> OrElse(p.timestamp, toISOString(t)),
   favicon |-> OrElse(p.favicon, Str("")),
   wordCount |-> OrElse(p.wordCount, Num(0)),
   readingTime |-> OrElse(p.readingTime, Num(1))]

Data(p, t) ==
  [title |-> OrElse(p.title, Str("Untitled")),
   url |-> OrElse(p.url, Str("")),
   content |-> OrElse(p.content, Str("")),
   timestamp |-> OrElse(p.timestamp, toISOString(t)),
   favicon |-> OrElse(p.favicon, Str("")),
   wordCount |-> IF NumberIsFinite(p.wordCount) THEN p.wordCount ELSE Num(0),
   readingTime |-> IF NumberIsFinite(p.readingTime) THEN p.readingTime ELSE Num(1)]

NoData == Data(PEmpty, 0)

\* the record the engine stores: the value with the generated key injected
\* at the key path 'id'
Rec(key, d) ==
  [id |-> key, title |-> d.title, url |-> d.url, content |-> d.content,
   timestamp |-> d.timestamp, favicon |-> d.favicon,
   wordCount |-> d.wordCount, readingTime |-> d.readingTime]

-----------------------------------------------------------------------------
(* Engine: schema                                                            *)
Index(name) == [name |-> name, keyPath |-> name, unique |-> FALSE]

ClippedPagesStore ==
  [name |-> STORE_NAME, keyPath |-> "id", autoIncrement |-> TRUE,
   indexes |-> {Index("url"), Index("timestamp")}]

HasStore(sch, name) == \E s \in sch : s.name = name

\* request.onupgradeneeded: the structure after the callback; ok = FALSE when
\* createObjectStore throws because the store exists (the upgrade aborts)
onupgradeneededM(sch, oldVersion) ==
  IF oldVersion < 1
  THEN IF HasStore(sch, STORE_NAME)
       THEN [ok |-> FALSE, schema |-> sch]
       ELSE [ok |-> TRUE,
             schema |-> sch \cup {[ClippedPagesStore EXCEPT !.indexes = {Index("url")}]}]
  ELSE [ok |-> TRUE, schema |-> sch]

onupgradeneeded(sch, oldVersion) ==
  IF oldVersion < 1
  THEN IF HasStore(sch, STORE_NAME)
       THEN [ok |-> FALSE, schema |-> sch]
       ELSE [ok |-> TRUE, schema |-> sch \cup {ClippedPagesStore}]
  ELSE [ok |-> TRUE, schema |-> sch]

NoUpgrade == [active |-> FALSE, ok |-> TRUE, schema |-> {}]

-----------------------------------------------------------------------------
(* Engine: operations of a transaction on its working copy of the store      *)
RECURSIVE SortByKey(_)
SortByKey(S) ==
  IF S = {} THEN <<>>
  ELSE LET m == CHOOSE r \in S : \A q \in S : r.id <= q.id
       IN <<m>> \o SortByKey(S \ {m})

Work(s, g) == [store |-> s, keyGen |-> g]

\* store.add(data): data carries no id, so the key generator supplies the key
storeAdd(w, d) ==
  [work |-> Work(w.store \cup {Rec(w.keyGen, d)}, w.keyGen + 1),
   res |-> w.keyGen, list |-> <<>>]

\* store.getAll(): every record, in key order
storeGetAll(w) == [work |-> w, res |-> 0, list |-> SortByKey(w.store)]

\* store.delete(id)
storeDelete(w, id) ==
  [work |-> Work({r \in w.store : r.id # id}, w.keyGen), res |-> 0, list |-> <<>>]

\* store.clear(): the key generator is not reset
storeClear(w) == [work |-> Work({}, w.keyGen), res |-> 0, list |-> <<>>]

-----------------------------------------------------------------------------
(* Calls of the exported API.  st is the position of the call:               *)
(*   opening, upgrading, opened : initDB awaiting the open request           *)
(*   pending                    : a CRUD call awaiting its request           *)
(*   resolved, rejected         : the promise of the call has settled        *)
(* tx is the state of the transaction the call created.                      *)
(* after is the set of calls that had already resolved when the call was    *)
(* made: what the caller had awaited before it.                              *)
NewCall(op, page, key) ==
  [op |-> op, page |-> page, key |-> key, data |-> NoData, st |-> "new",
   err |-> "", res |-> 0, list |-> <<>>, reqs |-> 0, settles |-> 0, tx |-> "none",
   after |-> {j \in 1..Len(calls) : calls[j].st = "resolved"}]

Settled(c) == c.st \in {"resolved", "rejected"}

\* if (!db)
DbUnsetM(d) == FALSE

DbUnset(d) == d = 0

\* throw new Error(...) / a TypeError before the try block
Throw(c, e) == [c EXCEPT !.st = "rejected", !.err = e, !.settles = @ + 1]

\* request.onsuccess = () => resolve(...), then the return after the await
onsuccess(c, r) ==
  [c EXCEPT !.st = "resolved", !.res = r.res, !.list = r.list, !.settles = @ + 1]

\* request.onerror = (event) => reject(event.target.error), then catch: log and rethrow
onerrorM(c, e) == c

onerror(c, e) == [c EXCEPT !.st = "rejected", !.err = e, !.settles = @ + 1]

\* catch (error) of initDB: log and rethrow
initDBCatchM(c, e) == [c EXCEPT !.st = "resolved", !.settles = @ + 1]

initDBCatch(c, e) == [c EXCEPT !.st = "rejected", !.err = e, !.settles = @ + 1]

\* db.transaction([STORE_NAME], mode) and the single request placed in it
Begin(c) == [c EXCEPT !.st = "pending", !.reqs = @ + 1, !.tx = "active"]

Issue(c, starts) ==
  /\ Len(calls) < MaxCalls
  /\ calls' = Append(calls, c)
  /\ txq' = IF starts THEN Append(txq, Len(calls) + 1) ELSE txq
  /\ clock' = clock + 1
  /\ UNCHANGED <<db, version, schema, store, keyGen, openq, pending, phase, work>>

initDB ==
  /\ Len(calls) < MaxCalls
  /\ calls' = Append(calls, [NewCall("init", PAbsent, 0) EXCEPT !.st = "opening", !.reqs = 1])
  /\ openq' = Append(openq, Len(calls) + 1)
  /\ clock' = clock + 1
  /\ UNCHANGED <<db, version, schema, store, keyGen, pending, txq, phase, work>>

addClippedPage(p) ==
  LET c == NewCall("add", p, 0) IN
  IF DbUnset(db) THEN Issue(Throw(c, "NotInitialized"), FALSE)
  ELSE IF ~p.present THEN Issue(Throw(c, "TypeError"), FALSE)
  ELSE Issue(Begin([c EXCEPT !.data = Data(p, clock)]), TRUE)

getAllClippedPages ==
  LET c == NewCall("list", PAbsent, 0) IN
  IF DbUnset(db) THEN Issue(Throw(c, "NotInitialized"), FALSE)
  ELSE Issue(Begin(c), TRUE)

deleteClippedPage(id) ==
  LET c == NewCall("delete", PAbsent, id) IN
  IF DbUnset(db) THEN Issue(Throw(c, "NotInitialized"), FALSE)
  ELSE Issue(Begin(c), TRUE)

clearAllClippedPages ==
  LET c == NewCall("clear", PAbsent, 0) IN
  IF DbUnset(db) THEN Issue(Throw(c, "NotInitialized"), FALSE)
  ELSE Issue(Begin(c), TRUE)

-----------------------------------------------------------------------------
(* Engine: the open request                                                  *)
\* the upgrade callback runs when the stored version is behind DB_VERSION
UpgradeNeeded(i) ==
  /\ openq # <<>> /\ i = Head(openq)
  /\ calls[i].st = "opening"
  /\ version < DB_VERSION
  /\ LET u == onupgradeneeded(schema, version)
     IN pending' = [active |-> TRUE, ok |-> u.ok, schema |-> u.schema]
  /\ calls' = [calls EXCEPT ![i].st = "upgrading"]
  /\ UNCHANGED <<db, version, schema, store, keyGen, openq, txq, phase, work, clock>>

\* the open request succeeds: an upgrade, if one ran, is committed first
OpenSuccess(i) ==
  /\ openq # <<>> /\ i = Head(openq)
  /\ \/ calls[i].st = "opening" /\ version = DB_VERSION
     \/ calls[i].st = "upgrading" /\ pending.ok
  /\ version' = DB_VERSION
  /\ schema' = IF pending.active THEN pending.schema ELSE schema
  /\ pending' = NoUpgrade
  /\ calls' = [calls EXCEPT ![i].st = "opened"]
  /\ openq' = Tail(openq)
  /\ UNCHANGED <<db, store, keyGen, txq, phase, work, clock>>

\* the open request fails: an upgrade, if one ran, is rolled back
OpenError(i) ==
  /\ openq # <<>> /\ i = Head(openq)
  /\ calls[i].st \in {"opening", "upgrading"}
  /\ pending' = NoUpgrade
  /\ calls' = [calls EXCEPT ![i] = initDBCatch(@, "OpenError")]
  /\ openq' = Tail(openq)
  /\ UNCHANGED <<db, version, schema, store, keyGen, txq, phase, work, clock>>

\* db = await ...: the continuation of initDB after the promise resolved
InitResume(i) ==
  /\ i \in 1..Len(calls)
  /\ calls[i].st = "opened"
  /\ db' = i
  /\ calls' = [calls EXCEPT ![i].st = "resolved", ![i].settles = @ + 1]
  /\ UNCHANGED <<version, schema, store, keyGen, openq, pending, txq, phase, work, clock>>

-----------------------------------------------------------------------------
(* Engine: transactions on the store run one at a time in creation order     *)
Result(c, w) ==
  CASE c.op = "add" -> storeAdd(w, c.data)
    [] c.op = "list" -> storeGetAll(w)
    [] c.op = "delete" -> storeDelete(w, c.key)
    [] OTHER -> storeClear(w)

\* the request is executed and its success event fires
RequestSuccess(i) ==
  /\ txq # <<>> /\ i = Head(txq) /\ phase = "idle"
  /\ LET r == Result(calls[i], Work(store, keyGen))
     IN /\ work' = r.work
        /\ calls' = [calls EXCEPT ![i] = onsuccess(@, r)]
  /\ phase' = "done"
  /\ UNCHANGED <<db, version, schema, store, keyGen, openq, pending, txq, clock>>

\* the request fails: its error event fires and the transaction aborts
RequestError(i) ==
  /\ txq # <<>> /\ i = Head(txq) /\ phase = "idle"
  /\ calls' = [calls EXCEPT ![i] = [onerror(@, "EngineError") EXCEPT !.tx = "aborted"]]
  /\ txq' = Tail(txq)
  /\ UNCHANGED <<db, version, schema, store, keyGen, openq, pending, phase, work, clock>>

\* the transaction commits: its working copy becomes the store
Commit(i) ==
  /\ txq # <<>> /\ i = Head(txq) /\ phase = "done"
  /\ store' = work.store
  /\ keyGen' = work.keyGen
  /\ calls' = [calls EXCEPT ![i].tx = "committed"]
  /\ txq' = Tail(txq)
  /\ phase' = "idle"
  /\ UNCHANGED <<db, version, schema, openq, pending, work, clock>>

\* a read-write transaction fails to commit after its request succeeded:
\* its changes, the key generator included, are reverted
Abort(i) ==
  /\ txq # <<>> /\ i = Head(txq) /\ phase = "done"
  /\ calls[i].op # "list"
  /\ work' = Work(store, keyGen)
  /\ calls' = [calls EXCEPT ![i].tx = "aborted"]
  /\ txq' = Tail(txq)
  /\ phase' = "idle"
  /\ UNCHANGED <<db, version, schema, store, keyGen, openq, pending, clock>>

-----------------------------------------------------------------------------
FullRecord(k) == Rec(k, Data(PFull, 0))

\* the database before the page loads: absent, or left by an earlier session
Init ==
  /\ db = 0
  /\ \/ version = 0 /\ schema = {} /\ store = {} /\ keyGen = 1
     \/ version = 1 /\ schema = {ClippedPagesStore} /\ store = {FullRecord(1)} /\ keyGen = 2
     \/ version = DB_VERSION /\ schema = {ClippedPagesStore} /\ store = {FullRecord(2)} /\ keyGen = 3
  /\ calls = <<>>
  /\ openq = <<>>
  /\ pending = NoUpgrade
  /\ txq = <<>>
  /\ phase = "idle"
  /\ work = Work(store, keyGen)
  /\ clock = 1

Engine ==
  \/ \E i \in 1..Len(calls) : UpgradeNeeded(i)
  \/ \E i \in 1..Len(calls) : OpenSuccess(i)
  \/ \E i \in 1..Len(calls) : OpenError(i)
  \/ \E i \in 1..Len(calls) : InitResume(i)
  \/ \E i \in 1..Len(calls) : RequestSuccess(i)
  \/ \E i \in 1..Len(calls) : RequestError(i)
  \/ \E i \in 1..Len(calls) : Commit(i)
  \/ \E i \in 1..Len(calls) : Abort(i)

\* the calls a page can make, with add inputs from P and delete keys from K
Caller(P, K) ==
  \/ initDB
  \/ \E p \in P : addClippedPage(p)
  \/ getAllClippedPages
  \/ \E id \in K : deleteClippedPage(id)
  \/ clearAllClippedPages

Next == Caller(Pages, 1..MaxKey) \/ Engine

Spec == Init /\ [][Next]_vars

\* The engine eventually fires the signal of every request it accepted, and
\* the continuation of a resolved promise eventually runs.  Settling does not
\* depend on the content of a page, so the inputs are a call without an
\* object and one full page.
LivePages == {PAbsent, PFull}

LiveNext == Caller(LivePages, {1}) \/ Engine

FairSpec == Init /\ [][LiveNext]_vars /\ WF_vars(Engine)

TypeOK == db \in 0..MaxCalls /\ Len(calls) <= MaxCalls

-----------------------------------------------------------------------------
(* Properties                                                                *)
Idx == 1..Len(calls)
IsOp(i, op) == calls[i].op = op
Resolved(i) == calls[i].st = "resolved"
Crud == {"add", "list", "delete", "clear"}

NoInitCompleted == \A i \in Idx : IsOp(i, "init") => ~Resolved(i)

\* C1: while no initDB call has completed successfully, a call of add,
\* listAll, deleteById or clearAll is rejected with the not-initialized
\* error, creates no transaction and issues no request, and the store, the
\* key generator and the transaction queue stay as they were.
C1_NotInitialized ==
  [][(NoInitCompleted /\ Len(calls') = Len(calls) + 1 /\ calls'[Len(calls')].op \in Crud)
     => /\ calls'[Len(calls')].st = "rejected"
        /\ calls'[Len(calls')].err = "NotInitialized"
        /\ calls'[Len(calls')].tx = "none"
        /\ calls'[Len(calls')].reqs = 0
        /\ txq' = txq /\ store' = store /\ keyGen' = keyGen /\ work' = work]_vars

\* an add made while an initDB is in flight (its open request has succeeded
\* but its continuation has not run) was rejected as not initialized
C1_Witness ==
  \E i \in Idx : \E j \in Idx :
    /\ i < j /\ IsOp(i, "init") /\ calls[i].st = "opened"
    /\ IsOp(j, "add") /\ calls[j].err = "NotInitialized"
    /\ NoInitCompleted /\ store # {}

OpenFailsAt(i) ==
  /\ i \in Idx
  /\ calls[i].st \in {"opening", "upgrading"}
  /\ calls'[i].st \notin {"opening", "upgrading", "opened"}

\* C5 as stated: whenever an initDB call fails on an open error, the
\* connection is unset right after the failure, whatever calls came before.
C5_Original ==
  [][\A i \in 1..MaxCalls : OpenFailsAt(i) => db' = 0]_vars

\* C5 as amended: an initDB call whose open request fails is rejected with
\* the engine's error and leaves the connection as it was before the call
\* (unset when no initDB had completed before, so that the other operations
\* still fail as not initialized; the earlier connection when one had); an
\* initDB call that completes sets the connection, and from then on the
\* connection is never unset again.
C5_Amended ==
  [][/\ \A i \in 1..MaxCalls :
          OpenFailsAt(i)
          => /\ calls'[i].st = "rejected" /\ calls'[i].err = "OpenError"
             /\ db' = db
             /\ (NoInitCompleted => db' = 0)
     /\ \A i \in 1..MaxCalls :
          (i \in Idx /\ calls[i].st = "opened" /\ calls'[i].st # "opened")
          => calls'[i].st = "resolved" /\ db' # 0
     /\ (db # 0 => db' # 0)]_vars

\* an initDB failed, a retry succeeded, and a later initDB failed while the
\* connection of the successful one stayed in place
C5_Witness ==
  \E i \in Idx : \E j \in Idx : \E k \in Idx :
    /\ i < j /\ j < k
    /\ IsOp(i, "init") /\ IsOp(j, "init") /\ IsOp(k, "init")
    /\ calls[i].st = "rejected" /\ Resolved(j) /\ calls[k].st = "rejected"
    /\ db = j

-----------------------------------------------------------------------------
IsText(v) == v.k = "str"
IsCount(v) == v.k = "num" /\ v.d = 1 /\ v.n >= 0
Fields == {"title", "url", "content", "timestamp", "favicon", "wordCount", "readingTime"}

WellTyped(r) ==
  /\ IsText(r.title) /\ IsText(r.url) /\ IsText(r.content)
  /\ IsText(r.timestamp) /\ IsText(r.favicon)
  /\ IsCount(r.wordCount) /\ IsCount(r.readingTime)

\* the data of the add calls that reached the engine
Written == {calls[i].data : i \in {j \in Idx : IsOp(j, "add") /\ calls[j].reqs > 0}}

Falsy(v) ==
  \/ v.k \in {"undef", "null", "nan"}
  \/ v.k = "str" /\ v.s = ""
  \/ v.k = "num" /\ v.n = 0

TextDefault(f) == IF f = "title" THEN Str("Untitled") ELSE Str("")
CountDefault(f) == IF f = "wordCount" THEN Num(0) ELSE Num(1)

-----------------------------------------------------------------------------
HasClippedPages(sch) ==
  /\ Cardinality(sch) = 1
  /\ \A s \in sch :
       /\ s.name = "clippedPages" /\ s.keyPath = "id" /\ s.autoIncrement
       /\ {x.name : x \in s.indexes} = {"url", "timestamp"}
       /\ \A x \in s.indexes : x.keyPath = x.name /\ ~x.unique

\* C9: from a database at version 0, 1 or 2, once initDB has succeeded the
\* database is at version 2 and holds the clippedPages store with the
\* auto-increment key path id and exactly the non-unique indexes url and
\* timestamp; the structure changes only in an open from version 0, and no
\* open changes a stored record or the key generator.
C9_Schema ==
  [][/\ (schema' # schema => version = 0 /\ schema = {})
     /\ (version' # version
         => version' = 2 /\ store' = store /\ keyGen' = keyGen
            /\ (version = 1 => schema' = schema))
     /\ \A i \in 1..MaxCalls :
          (i \in 1..Len(calls') /\ calls'[i].op = "init" /\ calls'[i].st \in {"opened", "resolved"})
          => version' = 2 /\ HasClippedPages(schema')]_vars

\* initDB has succeeded on the database that was at version 1: its record is
\* still there
C9_Witness ==
  /\ db # 0 /\ version = 2
  /\ FullRecord(1) \in store
  /\ HasClippedPages(schema)

-----------------------------------------------------------------------------
Adds == {i \in Idx : IsOp(i, "add") /\ Resolved(i)}
Removal(i) == IsOp(i, "delete") \/ IsOp(i, "clear")
Finished(i) == calls[i].tx \in {"committed", "aborted"}

\* a record equal to the normalized input: text fields from the page or
\* defaulted, the two counts from the page when finite and else 0 and 1
Normalized(r, page) ==
  /\ \A f \in {"title", "url", "content", "favicon"} : r[f] \in {page[f], TextDefault(f)}
  /\ (r.timestamp = page.timestamp \/ r.timestamp.s = "iso")
  /\ \A f \in {"wordCount", "readingTime"} :
       r[f] = IF page[f].k = "num" THEN page[f] ELSE CountDefault(f)

Matching(l, id) == {n \in 1..Len(l) : l[n].id = id}

\* C2 as stated: an add that resolved returned an id no other add returned,
\* and a listAll made after it, with no deleteById or clearAll in between,
\* holds exactly one record with that id, equal to the normalized input.
C2_Original ==
  \A i \in Adds :
    /\ \A j \in Adds : j # i => calls[j].res # calls[i].res
    /\ \A k \in Idx :
         (/\ IsOp(k, "list") /\ Resolved(k) /\ i \in calls[k].after
          /\ \A j \in Idx : (i < j /\ j < k) => ~Removal(j))
         => /\ Cardinality(Matching(calls[k].list, calls[i].res)) = 1
            /\ \A n \in Matching(calls[k].list, calls[i].res) :
                 Normalized(calls[k].list[n], calls[i].page)

\* C3 as stated: when the transaction of a deleteById(id) that succeeded
\* ends, the store is the store before it without the record of key id, and
\* is unchanged when there was no such record.
C3_Original ==
  [][\A i \in 1..MaxCalls :
       (/\ i \in Idx /\ IsOp(i, "delete") /\ Resolved(i)
        /\ calls[i].tx = "active" /\ calls'[i].tx # "active")
       => store' = {r \in store : r.id # calls[i].key}]_vars

\* C4 as stated: a listAll made after a clearAll has succeeded, with no add
\* in between, returns the empty sequence.
C4_Original ==
  \A i \in Idx : \A k \in Idx :
    (/\ IsOp(i, "clear") /\ IsOp(k, "list") /\ Resolved(k)
     /\ i \in calls[k].after
     /\ \A j \in Idx : (i < j /\ j < k) => ~IsOp(j, "add"))
    => calls[k].list = <<>>

\* C6 as stated: an add whose transaction failed has been rejected with the
\* engine's error; an add resolves only if its record is committed.
C6_Original ==
  \A i \in Idx :
    (IsOp(i, "add") /\ calls[i].tx = "aborted")
    => calls[i].st = "rejected" /\ calls[i].err = "EngineError"

\* C8 as stated: two add calls in flight at once that both resolve return
\* distinct ids, and when no deleteById or clearAll was called and both
\* transactions have ended, the store holds for each of them one record with
\* the returned id and the data of that call.
C8_Original ==
  \A i \in Adds : \A j \in Adds :
    (i < j /\ i \notin calls[j].after)
    => /\ calls[i].res # calls[j].res
       /\ ((Finished(i) /\ Finished(j) /\ \A m \in Idx : ~Removal(m))
           => /\ Rec(calls[i].res, calls[i].data) \in store
              /\ Rec(calls[j].res, calls[j].data) \in store
              /\ \A n \in {i, j} : Cardinality({r \in store : r.id = calls[n].res}) = 1)

-----------------------------------------------------------------------------
Synchronous(c) == c.st = "rejected" /\ c.err \in {"NotInitialized", "TypeError"}

====
